---- MODULE Spec2Model ----
(***************************************************************************)
(* Model of the fuel cell engineering DCL parser                           *)
(* (mi/dataset/parser/fuelcell_eng_dcl.py) and of the driver entry point   *)
(* that owns the file handle (mi/dataset/driver/.../..._driver.py).        *)
(*                                                                         *)
(* Text is modelled at the byte level: a string of the program is a        *)
(* sequence of one-byte characters, each written as a TLA+ string.  The    *)
(* token "0xFF" stands for the single byte 255.  Regular expressions are   *)
(* modelled by matchers that decide the same language on these sequences.  *)
(***************************************************************************)
EXTENDS Integers, Sequences, FiniteSets, TLC

VARIABLES
    pc,                  \* position of the driver's parse() call
    config,              \* the configuration handed to the parser constructor
    file,                \* content of the source file: a sequence of lines
    stream_handle,       \* "unopened", "open" or "closed"
    fpos,                \* number of lines consumed from the handle by readline
    fuelcell_input_row,  \* parse_file's current line (<<>> is the empty string: EOF)
    line_count,          \* parse_file's line counter
    record_buffer,       \* SimpleParser._record_buffer
    diagnostics,         \* the calls received by the exception callback, in order
    fuelcell_data_class, \* FuelCellEngDclParser._fuelcell_data_class
    exc,                 \* the exception in flight or raised by parse(), or "none"
    ret                  \* the value returned by parse(), or "none"

vars == <<pc, config, file, stream_handle, fpos, fuelcell_input_row, line_count,
          record_buffer, diagnostics, fuelcell_data_class, exc, ret>>

-----------------------------------------------------------------------------
(* Characters and elementary string operations of Python.                  *)

DigitChars == {"0", "1", "2", "3", "4", "5", "6", "7", "8", "9"}

HexChars == DigitChars \cup {"a", "b", "c", "d", "e", "f", "A", "B", "C", "D", "E", "F"}

WhitespaceChars == {" ", "\n", "\t", "\r"}

\* ord(c): the byte value of a character
ord(c) ==
    CASE c = "\t" -> 9   [] c = "\n" -> 10  [] c = "\r" -> 13  [] c = " " -> 32
      [] c = "+" -> 43   [] c = "," -> 44   [] c = "-" -> 45   [] c = "." -> 46
      [] c = "/" -> 47   [] c = "0" -> 48   [] c = "1" -> 49   [] c = "2" -> 50
      [] c = "3" -> 51   [] c = "4" -> 52   [] c = "5" -> 53   [] c = "6" -> 54
      [] c = "7" -> 55   [] c = "8" -> 56   [] c = "9" -> 57   [] c = ":" -> 58
      [] c = "A" -> 65   [] c = "B" -> 66   [] c = "C" -> 67   [] c = "D" -> 68
      [] c = "E" -> 69   [] c = "F" -> 70   [] c = "N" -> 78   [] c = "P" -> 80
      [] c = "_" -> 95   [] c = "a" -> 97   [] c = "b" -> 98   [] c = "c" -> 99
      [] c = "d" -> 100  [] c = "e" -> 101  [] c = "f" -> 102  [] c = "l" -> 108
      [] c = "o" -> 111  [] c = "p" -> 112  [] c = "r" -> 114  [] c = "s" -> 115
      [] c = "t" -> 116  [] c = "w" -> 119  [] c = "y" -> 121  [] c = "z" -> 122
      [] c = "0xFF" -> 255

\* s[i] when i is an index of s, and a value that is no character otherwise
At(s, i) == IF i \in 1..Len(s) THEN s[i] ELSE "<end>"

\* the end of the longest run of decimal digits that starts at index i: the
\* first index at or after i that holds no digit ([0-9]+ is greedy and no
\* alternative of the patterns below can give a digit back)
RECURSIVE DigitRunEnd(_, _)
DigitRunEnd(s, i) == IF At(s, i) \in DigitChars THEN DigitRunEnd(s, i + 1) ELSE i

\* s[i:] of Python for a 1-based index i
From(s, i) == SubSeq(s, i, Len(s))

\* str.split(sep) with a one-character separator: empty pieces are kept
RECURSIVE split(_, _)
split(s, sep) ==
    LET hits == {i \in 1..Len(s) : s[i] = sep}
    IN  IF hits = {}
        THEN <<s>>
        ELSE LET p == CHOOSE i \in hits : \A j \in hits : i <= j
             IN  <<SubSeq(s, 1, p - 1)>> \o split(From(s, p + 1), sep)

\* str.startswith('-')
startswith_minus(s) == At(s, 1) = "-"

\* str.isdigit: non-empty and decimal digits only
isdigit(s) == Len(s) > 0 /\ \A i \in 1..Len(s) : s[i] \in DigitChars

\* str.strip() as int() applies it before it reads the literal
strip(s) ==
    LET keep == {i \in 1..Len(s) : s[i] \notin WhitespaceChars}
    IN  IF keep = {}
        THEN <<>>
        ELSE SubSeq(s, CHOOSE i \in keep : \A j \in keep : i <= j,
                       CHOOSE i \in keep : \A j \in keep : i >= j)

DigitVal(c) == ord(c) - 48

RECURSIVE DigitsValue(_, _, _)
DigitsValue(s, i, acc) ==
    IF i > Len(s) THEN acc ELSE DigitsValue(s, i + 1, 10 * acc + DigitVal(s[i]))

\* int(s) succeeds: optional surrounding whitespace, optional sign, digits
int_parses(s) ==
    LET t == strip(s)
        body == IF At(t, 1) \in {"+", "-"} THEN From(t, 2) ELSE t
    IN  isdigit(body)

\* int(s) where it succeeds
int(s) ==
    LET t == strip(s)
        body == IF At(t, 1) \in {"+", "-"} THEN From(t, 2) ELSE t
        v == DigitsValue(body, 1, 0)
    IN  IF At(t, 1) = "-" THEN 0 - v ELSE v

-----------------------------------------------------------------------------
(* The regular expressions of the parser.                                  *)

COMMA == ","

\* the text ' No_FC_Data' of NON_DATA_REGEX
NON_DATA_TEXT == <<" ", "N", "o", "_", "F", "C", "_", "D", "a", "t", "a">>

\* NON_DATA_MATCHER.search(row) finds a match: r'.+ No_FC_Data', at least one
\* character other than a newline and then the text
NON_DATA_MATCHER(row) ==
    \E j \in 2..(Len(row) - Len(NON_DATA_TEXT) + 1) :
        /\ row[j - 1] # "\n"
        /\ SubSeq(row, j, j + Len(NON_DATA_TEXT) - 1) = NON_DATA_TEXT

\* DATE_TIME_REGEX matches at index i: dddd/dd/dd dd:dd:dd.ddd
DateTimeAt(row, i) ==
    /\ i + 22 <= Len(row)
    /\ \A k \in 0..22 :
          IF k \in {4, 7} THEN row[i + k] = "/"
          ELSE IF k = 10 THEN row[i + k] = " "
          ELSE IF k \in {13, 16} THEN row[i + k] = ":"
          ELSE IF k = 19 THEN row[i + k] = "."
          ELSE row[i + k] \in DigitChars

\* DATE_MATCHER.search(row): the index of the leftmost match, 0 when there is none
DATE_MATCHER(row) ==
    LET hits == {i \in 1..Len(row) : DateTimeAt(row, i)}
    IN  IF hits = {} THEN 0 ELSE CHOOSE i \in hits : \A j \in hits : i <= j

\* found_dtg.group(n) for the match at index i
DateGroup(row, i, n) ==
    CASE n = 1 -> SubSeq(row, i, i + 22)
      [] n = 2 -> SubSeq(row, i, i + 3)
      [] n = 3 -> SubSeq(row, i + 5, i + 6)
      [] n = 4 -> SubSeq(row, i + 8, i + 9)
      [] n = 5 -> SubSeq(row, i + 11, i + 12)
      [] n = 6 -> SubSeq(row, i + 14, i + 15)
      [] n = 7 -> SubSeq(row, i + 17, i + 18)
      [] n = 8 -> SubSeq(row, i + 20, i + 22)

\* START_DATA_REGEX r'( [+-]?[0-9]+,)' matches at index i
StartDataAt(row, i) ==
    /\ At(row, i) = " "
    /\ LET j == IF At(row, i + 1) \in {"+", "-"} THEN i + 2 ELSE i + 1
           k == DigitRunEnd(row, j)
       IN  k > j /\ At(row, k) = ","

\* START_DATA_MATCHER.search(row): the index of the leftmost match, 0 when none
START_DATA_MATCHER(row) ==
    LET hits == {i \in 1..Len(row) : StartDataAt(row, i)}
    IN  IF hits = {} THEN 0 ELSE CHOOSE i \in hits : \A j \in hits : i <= j

\* END_DATA_REGEX r'(: ?[+-]?[0-9]+ [0-9A-Fa-f]+)' matches at index i
EndDataAt(s, i) ==
    /\ At(s, i) = ":"
    /\ LET j1 == IF At(s, i + 1) = " " THEN i + 2 ELSE i + 1
           j2 == IF At(s, j1) \in {"+", "-"} THEN j1 + 1 ELSE j1
           k == DigitRunEnd(s, j2)
       IN  k > j2 /\ At(s, k) = " " /\ At(s, k + 1) \in HexChars

\* END_DATA_MATCHER.search(s) finds a match
END_DATA_MATCHER(s) == \E i \in 1..Len(s) : EndDataAt(s, i)

-----------------------------------------------------------------------------
(* Regex group indices and the indices of the fields of a line of data.    *)

YEAR_GROUP == 2

MONTH_GROUP == 3

DAY_GROUP == 4

HOUR_GROUP == 5

MINUTE_GROUP == 6

SECONDS_GROUP == 7

MILLISECONDS_GROUP == 8

DATALOG_MANAGER_VERSION_INDEX == 0

SYSTEM_SOFTWARE_VERSION_INDEX == 1

TOTAL_RUN_TIME_INDEX == 2

FUEL_CELL_VOLTAGE_INDEX == 3

FUEL_CELL_CURRENT_INDEX == 4

REFORMER_TEMPERATURE_INDEX == 5

FUEL_CELL_H2_PRESSURE_INDEX == 6

FUEL_CELL_TEMPERATURE_INDEX == 7

REFORMER_FUEL_PRESSURE_INDEX == 8

FUEL_PUMP_PWM_DRIVE_PERCENT_INDEX == 9

AIR_PUMP_PWM_DRIVE_PERCENT_INDEX == 10

COOLANT_PUMP_PWM_DRIVE_PERCENT_INDEX == 11

AIR_PUMP_TACH_COUNT_INDEX == 12

FUEL_CELL_STATE_INDEX == 13

FUEL_REMAINING_INDEX == 14

POWER_TO_BATTERY1_INDEX == 15

BATTERY1_CONVERTER_TEMPERATURE_INDEX == 16

POWER_TO_BATTERY2_INDEX == 17

BATTERY2_CONVERTER_TEMPERATURE_INDEX == 18

BALANCE_OF_PLANT_POWER_INDEX == 19

BALANCE_OF_PLANT_CONVERTER_TEMPERATURE_INDEX == 20

POWER_BOARD_TEMPERATURE_INDEX == 21

CONTROL_BOARD_TEMPERATURE_INDEX == 22

POWER_MANAGER_STATUS_INDEX == 23

POWER_MANAGER_ERROR_MASK_INDEX == 24

REFORMER_ERROR_MASK_INDEX == 25

FUEL_CELL_ERROR_MASK_INDEX == 26

-----------------------------------------------------------------------------
(* The static methods of FuelCellEngDclParser.                             *)

\* good_field without the allowance for a minus sign
good_field_unsigned(field_array) ==
    IF Len(field_array) # 27
    THEN FALSE
    ELSE \A x \in 1..Len(field_array) :
            Len(field_array[x]) > 0 /\ isdigit(field_array[x])

\* good_field: the number of fields, then every field an integer string
good_field(field_array) ==
    IF Len(field_array) # 27
    THEN FALSE
    ELSE \A x \in 1..Len(field_array) :
            /\ Len(field_array[x]) > 0
            /\ LET start_char == IF startswith_minus(field_array[x]) THEN 1 ELSE 0
               IN  isdigit(From(field_array[x], start_char + 1))

\* the loop of good_checksum with the reduction modulo 32768 left out
RECURSIVE checksum_loop_unreduced(_, _, _, _)
checksum_loop_unreduced(data_array, lo, hi, calculated_checksum) ==
    IF lo > hi
    THEN calculated_checksum
    ELSE IF lo = hi
    THEN calculated_checksum + ord(data_array[lo])
    ELSE LET mid == (lo + hi) \div 2
             first_half == checksum_loop_unreduced(data_array, lo, mid, calculated_checksum)
         IN  IF first_half \in Nat
             THEN checksum_loop_unreduced(data_array, mid + 1, hi, first_half)
             ELSE first_half

\* The passes lo..hi of the loop of good_checksum, in order, each adding one
\* byte to calculated_checksum and reducing it modulo 32768.  The passes of
\* the first half are evaluated (the test of first_half) before those of the
\* second half start, so the evaluation is only as deep as the logarithm of
\* the length.
RECURSIVE checksum_loop(_, _, _, _)
checksum_loop(data_array, lo, hi, calculated_checksum) ==
    IF lo > hi
    THEN calculated_checksum
    ELSE IF lo = hi
    THEN (calculated_checksum + ord(data_array[lo])) % 32768
    ELSE LET mid == (lo + hi) \div 2
             first_half == checksum_loop(data_array, lo, mid, calculated_checksum)
         IN  IF first_half \in Nat
             THEN checksum_loop(data_array, mid + 1, hi, first_half)
             ELSE first_half

good_checksum(data_array, read_checksum) ==
    checksum_loop(data_array, 1, Len(data_array), 0) = read_checksum

\* datetime.date(year, month, 1) of calendar.timegm raises ValueError
timegm_raises(year, month) == year < 1 \/ month \notin 1..12

IsLeap(year) == year % 4 = 0 /\ (year % 100 # 0 \/ year % 400 = 0)

DaysBeforeMonth(year, month) ==
    <<0, 31, 59, 90, 120, 151, 181, 212, 243, 273, 304, 334>>[month]
    + (IF month > 2 /\ IsLeap(year) THEN 1 ELSE 0)

\* datetime.date(year, month, 1).toordinal()
ToOrdinal(year, month) ==
    LET y == year - 1
    IN  y * 365 + (y \div 4) - (y \div 100) + (y \div 400)
        + DaysBeforeMonth(year, month) + 1

\* FuelCellEngDclParticleKey: the names of the keys of a record, in the order
\* of the class
FuelCellEngDclParticleKey ==
    <<
     "dcl_controller_timestamp", "datalog_manager_version",
     "system_software_version", "total_run_time", "fuel_cell_voltage",
     "fuel_cell_current", "reformer_temperature", "fuel_cell_h2_pressure",
     "fuel_cell_temperature", "reformer_fuel_pressure",
     "fuel_pump_pwm_drive_percent", "air_pump_pwm_drive_percent",
     "coolant_pump_pwm_drive_percent", "air_pump_tach_count",
     "fuel_cell_state", "fuel_remaining", "power_to_battery1",
     "battery1_converter_temperature", "power_to_battery2",
     "battery2_converter_temperature", "balance_of_plant_power",
     "balance_of_plant_converter_temperature", "power_board_temperature",
     "control_board_temperature", "power_manager_status",
     "power_manager_error_mask", "reformer_error_mask",
     "fuel_cell_error_mask"
    >>

\* UNPACK_DICT of the particle: the names of the integer fields and their
\* indices, which start at 1 since the DCL timestamp is at 0
UNPACK_DICT ==
    [
     datalog_manager_version |-> 1, system_software_version |-> 2,
     total_run_time |-> 3, fuel_cell_voltage |-> 4, fuel_cell_current |-> 5,
     reformer_temperature |-> 6, fuel_cell_h2_pressure |-> 7,
     fuel_cell_temperature |-> 8, reformer_fuel_pressure |-> 9,
     fuel_pump_pwm_drive_percent |-> 10, air_pump_pwm_drive_percent |-> 11,
     coolant_pump_pwm_drive_percent |-> 12, air_pump_tach_count |-> 13,
     fuel_cell_state |-> 14, fuel_remaining |-> 15, power_to_battery1 |-> 16,
     battery1_converter_temperature |-> 17, power_to_battery2 |-> 18,
     battery2_converter_temperature |-> 19, balance_of_plant_power |-> 20,
     balance_of_plant_converter_temperature |-> 21,
     power_board_temperature |-> 22, control_board_temperature |-> 23,
     power_manager_status |-> 24, power_manager_error_mask |-> 25,
     reformer_error_mask |-> 26, fuel_cell_error_mask |-> 27
    ]

\* generate_data_dict with the tokens of the two batteries exchanged
generate_data_dict_batteries_exchanged(datetime, data_list) ==
    [ dcl_controller_timestamp |-> datetime,
      datalog_manager_version |-> data_list[DATALOG_MANAGER_VERSION_INDEX + 1],
      system_software_version |-> data_list[SYSTEM_SOFTWARE_VERSION_INDEX + 1],
      total_run_time |-> data_list[TOTAL_RUN_TIME_INDEX + 1],
      fuel_cell_voltage |-> data_list[FUEL_CELL_VOLTAGE_INDEX + 1],
      fuel_cell_current |-> data_list[FUEL_CELL_CURRENT_INDEX + 1],
      reformer_temperature |-> data_list[REFORMER_TEMPERATURE_INDEX + 1],
      fuel_cell_h2_pressure |-> data_list[FUEL_CELL_H2_PRESSURE_INDEX + 1],
      fuel_cell_temperature |-> data_list[FUEL_CELL_TEMPERATURE_INDEX + 1],
      reformer_fuel_pressure |-> data_list[REFORMER_FUEL_PRESSURE_INDEX + 1],
      fuel_pump_pwm_drive_percent |-> data_list[FUEL_PUMP_PWM_DRIVE_PERCENT_INDEX + 1],
      air_pump_pwm_drive_percent |-> data_list[AIR_PUMP_PWM_DRIVE_PERCENT_INDEX + 1],
      coolant_pump_pwm_drive_percent |-> data_list[COOLANT_PUMP_PWM_DRIVE_PERCENT_INDEX + 1],
      air_pump_tach_count |-> data_list[AIR_PUMP_TACH_COUNT_INDEX + 1],
      fuel_cell_state |-> data_list[FUEL_CELL_STATE_INDEX + 1],
      fuel_remaining |-> data_list[FUEL_REMAINING_INDEX + 1],
      power_to_battery1 |-> data_list[POWER_TO_BATTERY2_INDEX + 1],
      battery1_converter_temperature |-> data_list[BATTERY1_CONVERTER_TEMPERATURE_INDEX + 1],
      power_to_battery2 |-> data_list[POWER_TO_BATTERY1_INDEX + 1],
      battery2_converter_temperature |-> data_list[BATTERY2_CONVERTER_TEMPERATURE_INDEX + 1],
      balance_of_plant_power |-> data_list[BALANCE_OF_PLANT_POWER_INDEX + 1],
      balance_of_plant_converter_temperature |-> data_list[BALANCE_OF_PLANT_CONVERTER_TEMPERATURE_INDEX + 1],
      power_board_temperature |-> data_list[POWER_BOARD_TEMPERATURE_INDEX + 1],
      control_board_temperature |-> data_list[CONTROL_BOARD_TEMPERATURE_INDEX + 1],
      power_manager_status |-> data_list[POWER_MANAGER_STATUS_INDEX + 1],
      power_manager_error_mask |-> data_list[POWER_MANAGER_ERROR_MASK_INDEX + 1],
      reformer_error_mask |-> data_list[REFORMER_ERROR_MASK_INDEX + 1],
      fuel_cell_error_mask |-> data_list[FUEL_CELL_ERROR_MASK_INDEX + 1] ]

\* get_timestamp: calendar.timegm of the first six components, the
\* milliseconds, and the shift to the NTP epoch.  The NTP time is kept in
\* three exact parts, whole days since 1900-01-01 (timegm's day count plus the
\* 25567 days of ntplib's NTP_DELTA), seconds within the day and
\* milliseconds: ntp seconds = ntp_days * 86400 + seconds + milliseconds / 1000.
get_timestamp(my_tuple) ==
    LET days == ToOrdinal(my_tuple[1], my_tuple[2]) - 719163 + my_tuple[3] - 1
    IN  [ntp_days |-> days + 25567,
         seconds |-> (my_tuple[4] * 60 + my_tuple[5]) * 60 + my_tuple[6],
         milliseconds |-> my_tuple[7]]

generate_data_dict(datetime, data_list) ==
    [ dcl_controller_timestamp |-> datetime,
      datalog_manager_version |-> data_list[DATALOG_MANAGER_VERSION_INDEX + 1],
      system_software_version |-> data_list[SYSTEM_SOFTWARE_VERSION_INDEX + 1],
      total_run_time |-> data_list[TOTAL_RUN_TIME_INDEX + 1],
      fuel_cell_voltage |-> data_list[FUEL_CELL_VOLTAGE_INDEX + 1],
      fuel_cell_current |-> data_list[FUEL_CELL_CURRENT_INDEX + 1],
      reformer_temperature |-> data_list[REFORMER_TEMPERATURE_INDEX + 1],
      fuel_cell_h2_pressure |-> data_list[FUEL_CELL_H2_PRESSURE_INDEX + 1],
      fuel_cell_temperature |-> data_list[FUEL_CELL_TEMPERATURE_INDEX + 1],
      reformer_fuel_pressure |-> data_list[REFORMER_FUEL_PRESSURE_INDEX + 1],
      fuel_pump_pwm_drive_percent |-> data_list[FUEL_PUMP_PWM_DRIVE_PERCENT_INDEX + 1],
      air_pump_pwm_drive_percent |-> data_list[AIR_PUMP_PWM_DRIVE_PERCENT_INDEX + 1],
      coolant_pump_pwm_drive_percent |-> data_list[COOLANT_PUMP_PWM_DRIVE_PERCENT_INDEX + 1],
      air_pump_tach_count |-> data_list[AIR_PUMP_TACH_COUNT_INDEX + 1],
      fuel_cell_state |-> data_list[FUEL_CELL_STATE_INDEX + 1],
      fuel_remaining |-> data_list[FUEL_REMAINING_INDEX + 1],
      power_to_battery1 |-> data_list[POWER_TO_BATTERY1_INDEX + 1],
      battery1_converter_temperature |-> data_list[BATTERY1_CONVERTER_TEMPERATURE_INDEX + 1],
      power_to_battery2 |-> data_list[POWER_TO_BATTERY2_INDEX + 1],
      battery2_converter_temperature |-> data_list[BATTERY2_CONVERTER_TEMPERATURE_INDEX + 1],
      balance_of_plant_power |-> data_list[BALANCE_OF_PLANT_POWER_INDEX + 1],
      balance_of_plant_converter_temperature |-> data_list[BALANCE_OF_PLANT_CONVERTER_TEMPERATURE_INDEX + 1],
      power_board_temperature |-> data_list[POWER_BOARD_TEMPERATURE_INDEX + 1],
      control_board_temperature |-> data_list[CONTROL_BOARD_TEMPERATURE_INDEX + 1],
      power_manager_status |-> data_list[POWER_MANAGER_STATUS_INDEX + 1],
      power_manager_error_mask |-> data_list[POWER_MANAGER_ERROR_MASK_INDEX + 1],
      reformer_error_mask |-> data_list[REFORMER_ERROR_MASK_INDEX + 1],
      fuel_cell_error_mask |-> data_list[FUEL_CELL_ERROR_MASK_INDEX + 1] ]

\* SimpleParser._extract_sample(particle_class, None, raw_data, timestamp): the
\* structured record built from the data dictionary and the timestamp
extract_sample(particle_class, raw_data, internal_timestamp) ==
    [particle_class |-> particle_class,
     raw_data |-> raw_data,
     internal_timestamp |-> internal_timestamp]

\* log_warning: the object handed to the exception callback.  The exception is
\* constructed from two arguments, the text msg_text + ' %d - No particle
\* generated' and the line number.
log_warning(msg_text, which_line) ==
    [type |-> "RecoverableSampleException",
     args |-> << <<msg_text, " ", "%d", " - No particle generated">>, which_line >>]

-----------------------------------------------------------------------------
(* The body of the while loop of parse_file.                               *)

\* the_data += data_part[x] for x in range(from, len(data_part) - 1), 0-based
RECURSIVE rebuild(_, _, _)
rebuild(the_data, data_part, x) ==
    IF x >= Len(data_part)
    THEN the_data
    ELSE rebuild(the_data \o data_part[x], data_part, x + 1)

\* The data block cut out of data_string, the text from the start anchor on:
\* the text is split on single spaces; with two pieces the first is the data,
\* otherwise the pieces but the last are put together with no space between.
the_data(data_string) ==
    LET data_part == split(data_string, " ")
    IN  IF Len(data_part) = 2
        THEN data_part[1]
        ELSE rebuild(data_part[1], data_part, 2)

Outcome(kind, value) == [kind |-> kind, value |-> value]

\* The first part of a pass of the loop, for the line row (fuelcell_input_row)
\* numbered which_line (line_count): the no-data marker, the timestamp, the
\* two anchors, and the payload and checksum cut out of the line.  The result
\* is the object given to the exception callback ("warn"), the exception that
\* leaves parse_file ("raise"), or the values the checks go on with ("framed").
frame(row, which_line) ==
    IF ~NON_DATA_MATCHER(row)
    THEN
      LET found_dtg == DATE_MATCHER(row)
      IN
      IF found_dtg # 0
      THEN
        LET dtg == DateGroup(row, found_dtg, 1)
            found_data == START_DATA_MATCHER(row)
        IN
        IF found_data # 0
        THEN
          LET data_string == From(row, found_data + 1)
          IN
          IF END_DATA_MATCHER(data_string)
          THEN
            LET data_plus_checksum == split(the_data(data_string), ":")
                actual_data == data_plus_checksum[1]
            IN
            IF Len(data_plus_checksum) < 2
            THEN Outcome("raise", "IndexError")
            ELSE IF ~int_parses(data_plus_checksum[2])
            THEN Outcome("raise", "ValueError")
            ELSE Outcome("framed",
                         [found_dtg |-> found_dtg,
                          dtg |-> dtg,
                          actual_data |-> actual_data,
                          read_checksum |-> int(data_plus_checksum[2])])
          ELSE Outcome("warn", log_warning("No terminator found on line", which_line))
        ELSE Outcome("warn", log_warning("No data found on line", which_line))
      ELSE Outcome("warn", log_warning("Bad/Missing Timestamp on line", which_line))
    ELSE Outcome("warn", log_warning("No fuel cell data on line", which_line))

\* The inside of the checks: the timestamp of the line and the particle.
\* calendar.timegm raises ValueError for a month or a year out of range.
build(row, framed, the_fields, particle_class) ==
    LET my_tuple ==
          <<int(DateGroup(row, framed.found_dtg, YEAR_GROUP)),
            int(DateGroup(row, framed.found_dtg, MONTH_GROUP)),
            int(DateGroup(row, framed.found_dtg, DAY_GROUP)),
            int(DateGroup(row, framed.found_dtg, HOUR_GROUP)),
            int(DateGroup(row, framed.found_dtg, MINUTE_GROUP)),
            int(DateGroup(row, framed.found_dtg, SECONDS_GROUP)),
            int(DateGroup(row, framed.found_dtg, MILLISECONDS_GROUP))>>
    IN  IF timegm_raises(my_tuple[1], my_tuple[2])
        THEN Outcome("raise", "ValueError")
        ELSE Outcome("append",
                     extract_sample(particle_class,
                                    generate_data_dict(framed.dtg, the_fields),
                                    get_timestamp(my_tuple)))

\* checks with the two validations exchanged: the fields before the checksum
checks_fields_first(row, framed, which_line, particle_class) ==
    LET the_fields == split(framed.actual_data, COMMA)
    IN  IF good_field(the_fields)
        THEN IF good_checksum(framed.actual_data, framed.read_checksum)
             THEN build(row, framed, the_fields, particle_class)
             ELSE Outcome("warn", log_warning("Bad checksum line", which_line))
        ELSE Outcome("warn", log_warning("Improper format line", which_line))

\* checks without the verification of the checksum
checks_without_checksum(row, framed, which_line, particle_class) ==
    LET the_fields == split(framed.actual_data, COMMA)
    IN  IF good_field(the_fields)
        THEN build(row, framed, the_fields, particle_class)
        ELSE Outcome("warn", log_warning("Improper format line", which_line))

\* The second part of a pass of the loop: the checksum, then the fields, then
\* the particle.
checks(row, framed, which_line, particle_class) ==
    IF good_checksum(framed.actual_data, framed.read_checksum)
    THEN
      LET the_fields == split(framed.actual_data, COMMA)
      IN
      IF good_field(the_fields)
      THEN build(row, framed, the_fields, particle_class)
      ELSE Outcome("warn", log_warning("Improper format line", which_line))
    ELSE Outcome("warn", log_warning("Bad checksum line", which_line))

\* The gates applied to one line by a parser whose particle class is
\* particle_class: the particle to append ("append"), the object given to the
\* exception callback ("warn"), or the exception that leaves parse_file ("raise").
loop_body(row, which_line, particle_class) ==
    LET located == frame(row, which_line)
    IN  IF located.kind = "framed"
        THEN checks(row, located.value, which_line, particle_class)
        ELSE located

-----------------------------------------------------------------------------
(* Inputs: lines, files and configurations.                                *)

\* the decimal text of a natural number
RECURSIVE Dec(_)
Dec(n) ==
    LET d == <<"0", "1", "2", "3", "4", "5", "6", "7", "8", "9">>[(n % 10) + 1]
    IN  IF n < 10 THEN <<d>> ELSE Dec(n \div 10) \o <<d>>

\* the tokens joined by commas
RECURSIVE Join(_, _)
Join(tokens, i) ==
    IF i > Len(tokens) THEN <<>>
    ELSE IF i = Len(tokens) THEN tokens[i]
    ELSE tokens[i] \o <<",">> \o Join(tokens, i + 1)

\* the sum of the byte values of text[lo..hi], not reduced
RECURSIVE ByteSumRange(_, _, _)
ByteSumRange(text, lo, hi) ==
    IF lo > hi THEN 0
    ELSE IF lo = hi THEN ord(text[lo])
    ELSE LET mid == (lo + hi) \div 2
         IN  ByteSumRange(text, lo, mid) + ByteSumRange(text, mid + 1, hi)

ByteSum(text) == ByteSumRange(text, 1, Len(text))

\* the checksum a well-formed line carries for a payload
Checksum(payload) == ByteSum(payload) % 32768

Stamp == <<"2", "0", "1", "5", "/", "0", "3", "/", "1", "0", " ", "1", "4", ":", "2", "2", ":", "0", "5", ".", "5", "0", "0">>

StampMonth13 == <<"2", "0", "1", "5", "/", "1", "3", "/", "1", "0", " ", "1", "4", ":", "2", "2", ":", "0", "5", ".", "5", "0", "0">>

StampYear0 == <<"0", "0", "0", "0", "/", "0", "3", "/", "1", "0", " ", "1", "4", ":", "2", "2", ":", "0", "5", ".", "5", "0", "0">>

Filler == <<" ", "f", "c", "l", " ", "0", ".", "0", "0">>

HexToken == <<"6", "d", "4", "7">>

\* a line: stamp, free text, payload, colon, checksum text, hex token, newline
Line(stamp, payload, checksum_text) ==
    stamp \o Filler \o <<" ">> \o payload \o <<":">> \o checksum_text
          \o <<" ">> \o HexToken \o <<"\n">>

\* 27 tokens "1" .. "27"
Tokens27 == [i \in 1..27 |-> Dec(i)]

Payload27 == Join(Tokens27, 1)

\* a payload of 27 tokens with one token replaced
PayloadWith(i, token) == Join([Tokens27 EXCEPT ![i] = token], 1)

Payload26 == Join([i \in 1..26 |-> Dec(i)], 1)

Payload28 == Join([i \in 1..28 |-> Dec(i)], 1)

\* a payload whose byte sum exceeds 32768: "1," and 130 bytes of value 255
PayloadWrap == <<"1", ",">> \o [i \in 1..130 |-> "0xFF"]

\* a line with the checksum of its payload
GoodLine(payload) == Line(Stamp, payload, Dec(Checksum(payload)))

\* a line with the checksum of its payload plus one, modulo 32768
BadChecksumLine(payload) == Line(Stamp, payload, Dec((Checksum(payload) + 1) % 32768))

L_valid == GoodLine(Payload27)

L_negative == GoodLine(PayloadWith(16, <<"-", "4", "5">>))

L_nodata == Stamp \o <<" ", "f", "c", "l", " ", "N", "o", "_", "F", "C", "_", "D", "a", "t", "a", "\n">>

L_nodata_nostamp == <<"f", "c", "l", " ", "N", "o", "_", "F", "C", "_", "D", "a", "t", "a", "\n">>

L_nodata_valid == Stamp \o <<" ", "N", "o", "_", "F", "C", "_", "D", "a", "t", "a">> \o From(L_valid, Len(Stamp) + 1)

L_nostamp == From(L_valid, Len(Stamp) + 1)

L_blank == <<"\n">>

L_nostart == Stamp \o Filler \o <<"\n">>

L_nostart_end == Stamp \o Filler \o <<":", "1", "2", " ", "6", "d", "4", "7", "\n">>

L_noend == Stamp \o Filler \o <<" ">> \o Payload27 \o <<":">>
           \o Dec(Checksum(Payload27)) \o <<"\n">>

L_noend_badfield == Stamp \o Filler \o <<" ">> \o Payload26 \o <<":">> \o <<"\n">>

L_badchecksum == BadChecksumLine(Payload27)

L_badchecksum_26 == BadChecksumLine(Payload26)

L_unreduced == Line(Stamp, PayloadWrap, Dec(ByteSum(PayloadWrap)))

L_wrap == GoodLine(PayloadWrap)

L_wrap_bad == BadChecksumLine(PayloadWrap)

L_26 == GoodLine(Payload26)

L_28 == GoodLine(Payload28)

L_empty_token == GoodLine(PayloadWith(5, <<>>))

L_lone_minus == GoodLine(PayloadWith(5, <<"-">>))

L_plus5 == GoodLine(PayloadWith(5, <<"+", "5">>))

L_minusminus5 == GoodLine(PayloadWith(5, <<"-", "-", "5">>))

L_12a == GoodLine(PayloadWith(5, <<"1", "2", "a">>))

L_last_token_bad == GoodLine(PayloadWith(27, <<"1", "2", "a">>))

\* a non-integer text between the first and the second colon
L_colons == Line(Stamp, Payload27 \o <<":", "a", "b">>, Dec(Checksum(Payload27)))

\* extra text after the hex token
L_text_after_hex ==
    SubSeq(L_valid, 1, Len(L_valid) - 1) \o <<" ", "z", "z", "\n">>

\* one space too many inside the payload; the checksum is that of the
\* payload without the space
L_space == Line(Stamp, PayloadWith(3, <<" ", "3">>), Dec(Checksum(Payload27)))

\* the same payload with the checksum of the text as it stands, space included
L_space_own == GoodLine(PayloadWith(3, <<" ", "3">>))

\* a token of digits in the place of the hex token, and text after it
L_digits_after ==
    Stamp \o Filler \o <<" ">> \o Payload27 \o <<":">> \o Dec(Checksum(Payload27))
          \o <<" ", "1", "2", " ", "z", "z", "\n">>

\* the checksum in two halves with a space between them, and text after them
L_split_checksum ==
    LET checksum_text == Dec(Checksum(Payload27))
    IN  Stamp \o Filler \o <<" ">> \o Payload27 \o <<":">>
              \o SubSeq(checksum_text, 1, 2) \o <<" ">>
              \o SubSeq(checksum_text, 3, Len(checksum_text))
              \o <<" ", "z", "z", "\n">>

\* the end pattern stands early in the payload only; the line ends with the
\* checksum and has no hex token
L_end_earlier ==
    Stamp \o Filler \o <<" ">>
          \o PayloadWith(2, <<"2", ":", "5", " ", "a", "b">>) \o <<":">>
          \o Dec(Checksum(Payload27)) \o <<"\n">>

L_month13 == Line(StampMonth13, Payload27, Dec(Checksum(Payload27)))

L_year0 == Line(StampYear0, Payload27, Dec(Checksum(Payload27)))

\* the lines of the one-line files
AllLines ==
    {L_valid, L_negative, L_nodata, L_nodata_nostamp, L_nodata_valid, L_nostamp,
     L_blank, L_nostart, L_nostart_end, L_noend, L_noend_badfield, L_badchecksum,
     L_badchecksum_26, L_unreduced, L_wrap, L_wrap_bad, L_26, L_28, L_empty_token,
     L_lone_minus, L_plus5, L_minusminus5, L_12a, L_last_token_bad, L_colons,
     L_text_after_hex, L_month13, L_year0, L_space, L_space_own,
     L_digits_after, L_split_checksum, L_end_earlier}

\* the lines of the files of several lines
CoreLines == {L_valid, L_negative, L_nodata, L_badchecksum, L_colons}

\* the longest file of several lines
MaxLines == 3

\* two files that hold a case and its opposite side by side
PairedFiles == {<<L_wrap, L_wrap_bad>>, <<L_nodata_nostamp, L_badchecksum_26>>}

Files ==
    {<<l>> : l \in AllLines}
    \cup PairedFiles
    \cup UNION {[1..n -> CoreLines] : n \in 0..MaxLines}

PARTICLE_CLASSES_DICT == "particle_classes_dict"

ENGINEERING_DATA_PARTICLE_CLASS == "engineering_data_particle_class"

ParticleClasses ==
    {"FuelCellEngDclDataParticleRecovered", "FuelCellEngDclDataParticleTelemetered"}

\* a configuration is a dictionary; its particle classes dictionary, when it
\* has one, is a dictionary too
Configs ==
    {[particle_class |-> "None"],
     [particle_class |-> "None",
      particle_classes_dict |-> [metadata_particle_class |-> "Metadata"]]}
    \cup {[particle_class |-> "None",
           particle_classes_dict |-> [engineering_data_particle_class |-> c]] :
          c \in ParticleClasses}

-----------------------------------------------------------------------------
(* The state machine: parse() of the driver around the parser.             *)

Init ==
    /\ pc = "start"
    /\ config \in Configs
    /\ file \in Files
    /\ stream_handle = "unopened"
    /\ fpos = 0
    /\ fuelcell_input_row = <<>>
    /\ line_count = 0
    /\ record_buffer = <<>>
    /\ diagnostics = <<>>
    /\ fuelcell_data_class = "unset"
    /\ exc = "none"
    /\ ret = "none"

\* with open(sourceFilePath, 'rb') as stream_handle
Open ==
    /\ pc = "start"
    /\ stream_handle' = "open"
    /\ pc' = "opened"
    /\ UNCHANGED <<config, file, fpos, fuelcell_input_row, line_count, record_buffer,
                   diagnostics, fuelcell_data_class, exc, ret>>

\* the particle class of a constructor that takes a default class when the
\* key is missing from the particle classes dictionary
particle_class_or_default(cfg) ==
    IF PARTICLE_CLASSES_DICT \in DOMAIN cfg
    THEN LET particle_classes_dict == cfg[PARTICLE_CLASSES_DICT]
         IN  IF ENGINEERING_DATA_PARTICLE_CLASS \in DOMAIN particle_classes_dict
             THEN Outcome("class", cfg[PARTICLE_CLASSES_DICT][ENGINEERING_DATA_PARTICLE_CLASS])
             ELSE Outcome("class", "FuelCellEngDclDataParticleRecovered")
    ELSE Outcome("raise", "ConfigurationException")

\* The configuration checks of FuelCellEngDclParser.__init__: the particle
\* class to use ("class"), or the exception raised ("raise").
particle_class_of(cfg) ==
    IF PARTICLE_CLASSES_DICT \in DOMAIN cfg
    THEN LET particle_classes_dict == cfg[PARTICLE_CLASSES_DICT]
         IN  IF ENGINEERING_DATA_PARTICLE_CLASS \in DOMAIN particle_classes_dict
             THEN Outcome("class", cfg[PARTICLE_CLASSES_DICT][ENGINEERING_DATA_PARTICLE_CLASS])
             ELSE Outcome("raise", "ConfigurationException")
    ELSE Outcome("raise", "ConfigurationException")

\* The construction of the driver builds the parser: FuelCellEngDclParser.__init__.
\* It raises ConfigurationException, or sets the particle class and lets the
\* base class initialise the parser (an empty record buffer).
Construct ==
    /\ pc = "opened"
    /\ LET checked == particle_class_of(config)
       IN  IF checked.kind = "class"
           THEN /\ fuelcell_data_class' = checked.value
                /\ pc' = "constructed"
                /\ exc' = exc
           ELSE /\ exc' = checked.value
                /\ pc' = "unwinding"
                /\ fuelcell_data_class' = fuelcell_data_class
    /\ record_buffer' = <<>>
    /\ UNCHANGED <<config, file, stream_handle, fpos, fuelcell_input_row, line_count,
                   diagnostics, ret>>

\* the outcomes of a call of readline on the handle
ReadOutcomes == {"line", "IOError"}

\* self._file_handle.readline(): the next line, or the empty string at the end
\* of the file; a failure of the stream raises IOError, which leaves parse_file
readline(outcome) ==
    IF outcome = "IOError"
    THEN /\ exc' = "IOError"
         /\ pc' = "unwinding"
         /\ UNCHANGED <<fpos, fuelcell_input_row>>
    ELSE /\ exc' = exc
         /\ pc' = "scanning"
         /\ IF fpos < Len(file)
            THEN fuelcell_input_row' = file[fpos + 1] /\ fpos' = fpos + 1
            ELSE fuelcell_input_row' = <<>> /\ fpos' = fpos

\* parse_file up to the loop: line_count = 0 and the first readline
ParseFileStart ==
    /\ pc = "constructed"
    /\ line_count' = 0
    /\ \E outcome \in ReadOutcomes : readline(outcome)
    /\ UNCHANGED <<config, file, stream_handle, record_buffer, diagnostics,
                   fuelcell_data_class, ret>>

\* an append that leaves out a particle equal to one already in the buffer
append_unique(buffer, particle) ==
    IF \E j \in 1..Len(buffer) : buffer[j] = particle
    THEN buffer
    ELSE Append(buffer, particle)

\* self._record_buffer.append(particle)
append(buffer, particle) == Append(buffer, particle)

\* one pass of the while loop: count the line, apply the gates, read the next line
ProcessLine ==
    /\ pc = "scanning"
    /\ fuelcell_input_row # <<>>
    /\ line_count' = line_count + 1
    /\ LET result == loop_body(fuelcell_input_row, line_count + 1, fuelcell_data_class)
       IN  CASE result.kind = "append" ->
                  /\ record_buffer' = append(record_buffer, result.value)
                  /\ diagnostics' = diagnostics
                  /\ \E outcome \in ReadOutcomes : readline(outcome)
             [] result.kind = "warn" ->
                  /\ diagnostics' = Append(diagnostics, result.value)
                  /\ record_buffer' = record_buffer
                  /\ \E outcome \in ReadOutcomes : readline(outcome)
             [] result.kind = "raise" ->
                  /\ exc' = result.value
                  /\ pc' = "unwinding"
                  /\ UNCHANGED <<record_buffer, diagnostics, fpos, fuelcell_input_row>>
    /\ UNCHANGED <<config, file, stream_handle, fuelcell_data_class, ret>>

\* the loop ends on the empty string: parse_file and processFileStream return
ParseFileReturn ==
    /\ pc = "scanning"
    /\ fuelcell_input_row = <<>>
    /\ pc' = "scanned"
    /\ UNCHANGED <<config, file, stream_handle, fpos, fuelcell_input_row, line_count,
                   record_buffer, diagnostics, fuelcell_data_class, exc, ret>>

\* an end of the block that closes the handle only when no exception is in flight
WithExit_only_on_return ==
    /\ pc \in {"scanned", "unwinding"}
    /\ stream_handle' = IF exc = "none" THEN "closed" ELSE stream_handle
    /\ IF exc = "none"
       THEN pc' = "returned" /\ ret' = "particleDataHdlrObj"
       ELSE pc' = "raised" /\ ret' = ret
    /\ UNCHANGED <<config, file, fpos, fuelcell_input_row, line_count, record_buffer,
                   diagnostics, fuelcell_data_class, exc>>

\* the end of the with block closes the handle, on return and on an exception;
\* then parse returns particleDataHdlrObj or the exception leaves parse
WithExit ==
    /\ pc \in {"scanned", "unwinding"}
    /\ stream_handle' = "closed"
    /\ IF exc = "none"
       THEN pc' = "returned" /\ ret' = "particleDataHdlrObj"
       ELSE pc' = "raised" /\ ret' = ret
    /\ UNCHANGED <<config, file, fpos, fuelcell_input_row, line_count, record_buffer,
                   diagnostics, fuelcell_data_class, exc>>

Next ==
    \/ Open
    \/ Construct
    \/ ParseFileStart
    \/ ProcessLine
    \/ ParseFileReturn
    \/ WithExit

Spec == Init /\ [][Next]_vars

-----------------------------------------------------------------------------
(* Properties of the scan.                                                 *)

\* the values cut out of each line of the files, when the line gets as far as
\* the checksum
FramedLines == [row \in AllLines |-> frame(row, 0)]

Framed(row) == FramedLines[row]

IsFramed(f) == f.kind = "framed"

\* the values cut out of the lines that get as far as the checksum
FramedValues == {f \in {FramedLines[row] : row \in AllLines} : IsFramed(f)}

\* those of them that pass good_checksum
ChecksumOkValues ==
    {f \in FramedValues : good_checksum(f.value.actual_data, f.value.read_checksum)}

ChecksumOk(f) == f \in ChecksumOkValues

TokensOf(f) == split(f.value.actual_data, COMMA)

\* those of them whose tokens pass good_field
FieldsOkValues == {f \in FramedValues : good_field(TokensOf(f))}

FieldsOk(f) == f \in FieldsOkValues

\* the calendar fields of the line are in the range of the calendar
StampInRange(row, f) ==
    LET year == int(DateGroup(row, f.value.found_dtg, YEAR_GROUP))
        month == int(DateGroup(row, f.value.found_dtg, MONTH_GROUP))
    IN  year >= 1 /\ month \in 1..12

\* a valid line: it passes the six gates and its timestamp is a calendar date
ValidLines ==
    {row \in AllLines :
        LET f == Framed(row)
        IN  IsFramed(f) /\ ChecksumOk(f) /\ FieldsOk(f) /\ StampInRange(row, f)}

ValidLine(row) == row \in ValidLines

\* the exception callback was called for line i with this reason
Reported(i, reason) ==
    \E k \in DOMAIN diagnostics :
        diagnostics[k].args[2] = i /\ diagnostics[k].args[1][1] = reason

\* C1: after k lines have been read by the loop, the records appended and the
\* diagnostics issued are k together: every line read has exactly one outcome.
C1_OneOutcomePerLine == Len(record_buffer) + Len(diagnostics) = line_count

\* C2: every record of the buffer was built from a line read so far whose
\* payload passed good_checksum and whose fields passed good_field, and there
\* are no more records than such lines.
C2_OnlyValidatedRecords ==
    /\ \A j \in DOMAIN record_buffer :
          \E i \in 1..line_count :
             LET f == Framed(file[i])
             IN  /\ IsFramed(f) /\ ChecksumOk(f) /\ FieldsOk(f)
                 /\ record_buffer[j].raw_data
                      = generate_data_dict(f.value.dtg, TokensOf(f))
    /\ Len(record_buffer)
         <= Cardinality({i \in 1..line_count :
                           LET f == Framed(file[i])
                           IN  IsFramed(f) /\ ChecksumOk(f) /\ FieldsOk(f)})

\* a record is in the buffer and a line that failed the checksum was read
C2_Witness ==
    /\ Len(record_buffer) >= 1
    /\ \E i \in 1..line_count :
          LET f == Framed(file[i]) IN IsFramed(f) /\ ~ChecksumOk(f)

\* the record of a valid line
RecordOf(row) ==
    LET f == Framed(row)
    IN  build(row, f.value, TokensOf(f), fuelcell_data_class).value

\* the records of the valid lines among the first k lines of the file, in order
RECURSIVE ValidRecords(_)
ValidRecords(k) ==
    IF k = 0
    THEN <<>>
    ELSE ValidRecords(k - 1)
         \o (IF ValidLine(file[k]) THEN <<RecordOf(file[k])>> ELSE <<>>)

\* C3: the record buffer only grows at its end, and it holds the records of
\* the valid lines read so far, in the order of the lines, one per line; a
\* scan that reaches the end of the file has read every line.
C3_RecordsInLineOrder ==
    /\ [](record_buffer = ValidRecords(line_count))
    /\ [](pc \in {"scanned", "returned"} => line_count = Len(file))
    /\ [][/\ Len(record_buffer') >= Len(record_buffer)
          /\ SubSeq(record_buffer', 1, Len(record_buffer)) = record_buffer]_vars

\* two identical valid lines with a malformed line between them were scanned
C3_Witness ==
    /\ pc = "scanned"
    /\ Len(record_buffer) = 2
    /\ record_buffer[1] = record_buffer[2]
    /\ Len(diagnostics) = 1
    /\ diagnostics[1].args[2] = 2

\* C4: no exception leaves parse_file because of the content of a line.
C4_NoExceptionFromLineContent == exc \in {"none", "ConfigurationException", "IOError"}

SignedDigits(token) ==
    LET rest == IF Len(token) > 0 /\ token[1] = "-" THEN Tail(token) ELSE token
    IN  rest # <<>> /\ \A p \in DOMAIN rest : rest[p] \in DigitChars

\* exactly 27 tokens, each an optionally signed integer text
TwentySevenIntegers(tokens) ==
    Len(tokens) = 27 /\ \A x \in DOMAIN tokens : SignedDigits(tokens[x])

\* 26 and 28 tokens are rejected, and so are an empty token, a lone '-', '+5',
\* '--5' and '12a' among 27 tokens; '-45' among 27 tokens is accepted
ListedTokensVerdicts ==
    /\ ~good_field([i \in 1..26 |-> Dec(i)])
    /\ ~good_field([i \in 1..28 |-> Dec(i)])
    /\ ~good_field([Tokens27 EXCEPT ![5] = <<>>])
    /\ ~good_field([Tokens27 EXCEPT ![5] = <<"-">>])
    /\ ~good_field([Tokens27 EXCEPT ![5] = <<"+", "5">>])
    /\ ~good_field([Tokens27 EXCEPT ![5] = <<"-", "-", "5">>])
    /\ ~good_field([Tokens27 EXCEPT ![5] = <<"1", "2", "a">>])
    /\ good_field([Tokens27 EXCEPT ![16] = <<"-", "4", "5">>])

\* C6: good_field is true exactly for 27 tokens that are each non-empty
\* decimal digits after at most one leading '-'; the listed tokens are
\* rejected and '-45' is accepted; a line that passes the checksum is reported
\* with 'Improper format line' exactly when its tokens are rejected.
C6_FieldGate ==
    /\ \A i \in 1..line_count :
          LET f == Framed(file[i])
          IN  (IsFramed(f) /\ ChecksumOk(f)) =>
                /\ FieldsOk(f) <=> TwentySevenIntegers(TokensOf(f))
                /\ Reported(i, "Improper format line")
                     <=> ~TwentySevenIntegers(TokensOf(f))
    /\ ListedTokensVerdicts

\* a line with 27 tokens, one of them not an integer, passed the checksum and
\* was reported with 'Improper format line'
C6_Witness ==
    \E i \in 1..line_count :
        LET f == Framed(file[i])
        IN  /\ IsFramed(f) /\ ChecksumOk(f)
            /\ Len(TokensOf(f)) = 27
            /\ ~TwentySevenIntegers(TokensOf(f))
            /\ Reported(i, "Improper format line")

\* C7: the message text of every diagnostic embeds the number of a line read.
C7_MessageEmbedsLineNumber ==
    \A k \in DOMAIN diagnostics :
        \E i \in 1..line_count :
            \E p \in DOMAIN diagnostics[k].args[1] :
                diagnostics[k].args[1][p] = ToString(i)

\* the configuration has the particle classes dictionary and the key in it
ConfigComplete(cfg) ==
    /\ PARTICLE_CLASSES_DICT \in DOMAIN cfg
    /\ ENGINEERING_DATA_PARTICLE_CLASS \in DOMAIN cfg[PARTICLE_CLASSES_DICT]

\* C8: with the dictionary or the key missing, the construction raises
\* ConfigurationException and no line is read and no record or diagnostic is
\* produced; with both present the construction does not raise and every
\* record is of the configured class.
C8_ConfigurationChecked ==
    /\ (~ConfigComplete(config) /\ pc \notin {"start", "opened"}) =>
          /\ exc = "ConfigurationException"
          /\ pc \in {"unwinding", "raised"}
          /\ fpos = 0
          /\ line_count = 0
          /\ record_buffer = <<>>
          /\ diagnostics = <<>>
    /\ ConfigComplete(config) =>
          /\ exc # "ConfigurationException"
          /\ pc \notin {"start", "opened"} =>
                fuelcell_data_class
                  = config[PARTICLE_CLASSES_DICT][ENGINEERING_DATA_PARTICLE_CLASS]
          /\ \A j \in DOMAIN record_buffer :
                record_buffer[j].particle_class
                  = config[PARTICLE_CLASSES_DICT][ENGINEERING_DATA_PARTICLE_CLASS]

\* the construction raised for a dictionary that lacks the key
C8_Witness ==
    /\ PARTICLE_CLASSES_DICT \in DOMAIN config
    /\ ~ConfigComplete(config)
    /\ Len(file) > 0
    /\ pc = "raised"
    /\ exc = "ConfigurationException"

\* C9: the handle is closed once parse has returned or raised, it stays open
\* from the opening to the end of the with block (the parser does not close
\* it), and parse returns particleDataHdlrObj exactly when it returns.
C9_HandleClosedOnEveryExit ==
    /\ pc \in {"returned", "raised"} => stream_handle = "closed"
    /\ pc \in {"opened", "constructed", "scanning", "scanned", "unwinding"} =>
          stream_handle = "open"
    /\ (pc = "returned") <=> (ret = "particleDataHdlrObj")

\* parse raised after the scan had started, and the handle is closed
C9_Witness ==
    /\ pc = "raised"
    /\ exc = "IOError"
    /\ line_count >= 1
    /\ stream_handle = "closed"

\* the reason of the first gate, in the order of the gates, that a line fails
FirstFailedGate(row) ==
    LET start == START_DATA_MATCHER(row)
        f == Framed(row)
    IN  IF NON_DATA_MATCHER(row) THEN "No fuel cell data on line"
        ELSE IF DATE_MATCHER(row) = 0 THEN "Bad/Missing Timestamp on line"
        ELSE IF start = 0 THEN "No data found on line"
        ELSE IF ~END_DATA_MATCHER(From(row, start + 1)) THEN "No terminator found on line"
        ELSE IF IsFramed(f) /\ ~ChecksumOk(f) THEN "Bad checksum line"
        ELSE IF IsFramed(f) /\ ~FieldsOk(f) THEN "Improper format line"
        ELSE "none"

\* C10: every diagnostic is for a line read, names the first gate that the
\* line fails in the order no-data marker, timestamp, start anchor, end
\* anchor, checksum, fields, and is the only diagnostic of that line.
C10_FirstFailedGateReported ==
    \A k \in DOMAIN diagnostics :
        LET i == diagnostics[k].args[2]
        IN  /\ i \in 1..line_count
            /\ diagnostics[k].args[1][1] = FirstFailedGate(file[i])
            /\ \A k2 \in DOMAIN diagnostics : diagnostics[k2].args[2] = i => k2 = k

\* a 'No_FC_Data' line without a timestamp was reported as a no-data line, and
\* a line with a wrong checksum and a wrong field count as a bad checksum
C10_Witness ==
    /\ line_count = 2
    /\ NON_DATA_MATCHER(file[1]) /\ DATE_MATCHER(file[1]) = 0
    /\ Reported(1, "No fuel cell data on line")
    /\ LET f == Framed(file[2])
       IN  IsFramed(f) /\ ~ChecksumOk(f) /\ ~FieldsOk(f)
    /\ Reported(2, "Bad checksum line")

\* the text of a line from its start anchor on
DataString(row) == From(row, START_DATA_MATCHER(row) + 1)

\* the line passes the no-data marker, the timestamp and the two anchors
ReachesCut(row) ==
    /\ ~NON_DATA_MATCHER(row)
    /\ DATE_MATCHER(row) # 0
    /\ START_DATA_MATCHER(row) # 0
    /\ END_DATA_MATCHER(DataString(row))

\* the first n of the pieces put together, with nothing between them
RECURSIVE Concat(_, _)
Concat(pieces, n) ==
    IF n = 0 THEN <<>> ELSE Concat(pieces, n - 1) \o pieces[n]

\* an integer text: an optional sign and one decimal digit or more
IntegerText(text) ==
    LET rest == IF Len(text) > 0 /\ text[1] \in {"+", "-"} THEN Tail(text) ELSE text
    IN  rest # <<>> /\ \A p \in DOMAIN rest : rest[p] \in DigitChars

\* a text of the form <comma-fields>:<checksum> with an integer checksum
DataColonChecksum(text) ==
    LET parts == split(text, ":")
    IN  Len(parts) = 2 /\ IntegerText(parts[2])

\* the data block of every line read that passes the anchors follows the
\* rule of the pieces: the first of two pieces, or all but the last of more
\* than two, put together without the spaces
C11_SplitRule ==
    \A i \in 1..line_count :
        ReachesCut(file[i]) =>
            LET pieces == split(DataString(file[i]), " ")
                block == the_data(DataString(file[i]))
            IN  /\ Len(pieces) >= 2
                /\ Len(pieces) = 2 => block = pieces[1]
                /\ Len(pieces) > 2 => block = Concat(pieces, Len(pieces) - 1)
                /\ \A p \in DOMAIN block : block[p] # " "

\* the data block of every line read that passes the anchors is a text of the
\* form <comma-fields>:<checksum> with an integer checksum
C11_IntegerForm ==
    \A i \in 1..line_count :
        ReachesCut(file[i]) => DataColonChecksum(the_data(DataString(file[i])))

\* a line read whose data block has the form is reported with 'Bad checksum
\* line' exactly when the checksum it carries is not the byte sum, modulo
\* 32768, of the text before the colon with the spaces removed
C11_SpaceRemoved ==
    \A i \in 1..line_count :
        (ReachesCut(file[i]) /\ DataColonChecksum(the_data(DataString(file[i])))) =>
            LET pieces == split(DataString(file[i]), " ")
                parts == split(Concat(pieces, Len(pieces) - 1), ":")
            IN  Reported(i, "Bad checksum line")
                  <=> (ByteSum(parts[1]) % 32768 # int(parts[2]))

\* C11: the data block of a line that passes the anchors is the first of two
\* pieces or the pieces but the last put together without spaces, it always
\* has the form <comma-fields>:<checksum> with an integer checksum, and it is
\* validated against the checksum of the payload text with the spaces removed.
C11_FrameOutput == C11_SplitRule /\ C11_IntegerForm /\ C11_SpaceRemoved

\* the index after the run of hexadecimal digits that starts at index i
RECURSIVE HexRunEnd(_, _)
HexRunEnd(s, i) == IF At(s, i) \in HexChars THEN HexRunEnd(s, i + 1) ELSE i

\* a colon, an integer checksum, a space and a hexadecimal token stand at the
\* end of the text: nothing but the newline follows the hexadecimal token
EndDataAtLineEnd(s) ==
    \E i \in 1..Len(s) :
        /\ EndDataAt(s, i)
        /\ LET j1 == IF At(s, i + 1) = " " THEN i + 2 ELSE i + 1
               j2 == IF At(s, j1) \in {"+", "-"} THEN j1 + 1 ELSE j1
               h == HexRunEnd(s, DigitRunEnd(s, j2) + 1)
           IN  h = Len(s) + 1 \/ (h = Len(s) /\ s[h] = "\n")

\* the line passes the no-data marker, the timestamp and the start anchor
ReachesEndAnchor(row) ==
    /\ ~NON_DATA_MATCHER(row)
    /\ DATE_MATCHER(row) # 0
    /\ START_DATA_MATCHER(row) # 0

\* C12: a line read that gets as far as the end anchor is reported with 'No
\* terminator found on line' exactly when the colon, the integer checksum, the
\* space and the hexadecimal token do not stand at the end of the line, and
\* the records are at most as many as the lines read that end in this way.
C12_EndAnchorAtLineEnd ==
    /\ \A i \in 1..line_count :
          ReachesEndAnchor(file[i]) =>
             (Reported(i, "No terminator found on line")
                <=> ~EndDataAtLineEnd(DataString(file[i])))
    /\ Len(record_buffer)
         <= Cardinality({i \in 1..line_count :
                           /\ ReachesEndAnchor(file[i])
                           /\ EndDataAtLineEnd(DataString(file[i]))})

\* the names of the 27 fields in the order of the table: the keys after the
\* key of the timestamp
FieldNames == Tail(FuelCellEngDclParticleKey)

\* the numbers of the valid lines among the first k lines of the file, in order
RECURSIVE ValidIndices(_)
ValidIndices(k) ==
    IF k = 0
    THEN <<>>
    ELSE ValidIndices(k - 1) \o (IF ValidLine(file[k]) THEN <<k>> ELSE <<>>)

\* the table holds 27 names, datalog_manager_version first and
\* fuel_cell_error_mask last, each once, and the names of UNPACK_DICT are
\* exactly these, with the indices 1 to 27 in the order of the table
FieldTableSound ==
    /\ Len(FieldNames) = 27
    /\ FieldNames[1] = "datalog_manager_version"
    /\ FieldNames[27] = "fuel_cell_error_mask"
    /\ \A p, q \in 1..27 : FieldNames[p] = FieldNames[q] => p = q
    /\ DOMAIN UNPACK_DICT = {FieldNames[p] : p \in 1..27}
    /\ \A p \in 1..27 : UNPACK_DICT[FieldNames[p]] = p

\* C13: the table holds 27 names, datalog_manager_version first and
\* fuel_cell_error_mask last, each once; the names of UNPACK_DICT are exactly
\* these; and the data dictionary of every record of the buffer has these
\* names and dcl_controller_timestamp as its keys, maps the name at place p of
\* the table to the payload token at position p - 1 of its line, and maps
\* dcl_controller_timestamp to the timestamp text of the line as it stands.
C13_FieldMapping ==
    LET lines == ValidIndices(line_count)
    IN  /\ FieldTableSound
        /\ Len(record_buffer) = Len(lines)
        /\ \A j \in DOMAIN record_buffer :
              LET row == file[lines[j]]
                  tokens == TokensOf(Framed(row))
                  raw_data == record_buffer[j].raw_data
                  start == DATE_MATCHER(row)
              IN  /\ DOMAIN raw_data
                       = {"dcl_controller_timestamp"} \cup DOMAIN UNPACK_DICT
                  /\ Len(tokens) = 27
                  /\ \A p \in 1..27 : raw_data[FieldNames[p]] = tokens[p]
                  /\ raw_data["dcl_controller_timestamp"]
                       = SubSeq(row, start, start + 22)

\* two records are in the buffer, the first of a line whose sixteenth token
\* is '-45' and the second of a line whose sixteenth token is '16'
C13_Witness ==
    /\ Len(record_buffer) = 2
    /\ record_buffer[1].raw_data["power_to_battery1"] = <<"-", "4", "5">>
    /\ record_buffer[1].raw_data["power_to_battery2"] = <<"1", "8">>
    /\ record_buffer[2].raw_data["power_to_battery1"] = <<"1", "6">>
    /\ record_buffer[2].raw_data["dcl_controller_timestamp"] = Stamp

====
